---- MODULE Spec2Model ----
(***************************************************************************)
(* A model of gomokugen: the Board of src/board.rs (cells, last_move, ply) *)
(* with make_move, turn, outcome / row_along, generate_moves, feature_map, *)
(* fen and its decoder, and the perft / perft_cached traversals of         *)
(* src/perft.rs.                                                           *)
(*                                                                         *)
(* A Board<SIDE_LENGTH> is a record [cells, last_move, ply]; cells is the  *)
(* two-dimensional array cells[row][col]; an Option<T> is a sequence of    *)
(* length 0 (None) or 1 (Some); a String is a sequence of one-character    *)
(* strings.  Board::ply is a u16; it stays below 50 in the games played.   *)
(***************************************************************************)
EXTENDS Integers, Sequences, FiniteSets, TLC

VARIABLES
    book,     \* which game of Books is being played (fixes SIDE_LENGTH)
    board,    \* the caller's Board
    ret,      \* the last operation called on the board and what it returned
    cache     \* the HashMap handed to perft_cached (map), and how often

vars == <<book, board, ret, cache>>

----------------------------------------------------------------------------
(* Bounds of the model *)

\* the callback of generate_moves returns true at its n-th call, n in
\* 1..MaxStop, or never
MaxStop == 3
\* perft_cached is called with depth 0..MaxCachedDepth, at most
\* MaxCachedCalls times on one cache
MaxCachedDepth == 5
MaxCachedCalls == 2
\* on boards with at most MaxDeepEmpty empty cells perft is also called with
\* the depths 3..MaxDeepDepth
MaxDeepEmpty == 5
MaxDeepDepth == 4
\* the sampler calls of one make_random_move are counted up to MaxSamples
MaxSamples == 3

\* the depths at which perft has a closed form on the empty board
ShallowDepths == {0, 1, 2}

(* Program constants *)

\* u16::MAX, the index of the null move
U16_MAX == 65535

----------------------------------------------------------------------------
(* The games played.  A game is a board side, an opening (moves the caller *)
(* makes first, in this order, from the empty board) and an arena (the     *)
(* empty cells the caller then plays on, in every order).  The pictures    *)
(* show the position after the opening: x, o stones, . arena, - unused.    *)

Books == <<
    \* side 1
    \*   .
    [side |-> 1,
     opening |-> <<>>,
     arena |-> {0}],
    \* side 2
    \*   . .
    \*   . .
    [side |-> 2,
     opening |-> <<>>,
     arena |-> {0, 1, 2, 3}],
    \* side 3, centre opening
    \*   . . .
    \*   . x o
    \*   . . .
    [side |-> 3,
     opening |-> <<4, 5>>,
     arena |-> {0, 1, 2, 3, 6, 7, 8}],
    \* side 4, draw fill
    \*   x x o o
    \*   o o x .
    \*   x x o .
    \*   x . . .
    [side |-> 4,
     opening |-> <<0, 2, 1, 3, 6, 4, 8, 5, 9, 10, 12>>,
     arena |-> {7, 11, 13, 14, 15}],
    \* side 5, full board
    \*   . . . x x
    \*   o o x o o
    \*   x x o x x
    \*   o o x o o
    \*   x o x . .
    [side |-> 5,
     opening |-> <<3, 5, 4, 6, 7, 8, 10, 9, 11, 12, 13, 15, 14, 16, 17, 18, 20, 19, 22, 21>>,
     arena |-> {0, 1, 2, 23, 24}],
    \* side 6, horizontal
    \*   x x x . . x
    \*   - - - - - -
    \*   o o o o . .
    \*   - - - - - -
    \*   - - - - - -
    \*   - - - - - .
    [side |-> 6,
     opening |-> <<0, 12, 1, 13, 2, 14, 5, 15>>,
     arena |-> {3, 4, 16, 17, 35}],
    \* side 6, vertical
    \*   x - o - - -
    \*   x - o - - -
    \*   x - o - - -
    \*   . - o - - -
    \*   . - . - - -
    \*   x - . - - .
    [side |-> 6,
     opening |-> <<0, 2, 6, 8, 12, 14, 30, 20>>,
     arena |-> {18, 24, 26, 32, 35}],
    \* side 6, diagonal
    \*   x - - - . .
    \*   o x - - - -
    \*   - o x - - -
    \*   - - o . - -
    \*   - - - o . -
    \*   - - - - . x
    [side |-> 6,
     opening |-> <<0, 6, 7, 13, 14, 20, 35, 27>>,
     arena |-> {4, 5, 21, 28, 34}],
    \* side 6, anti-diagonal
    \*   . . - - - x
    \*   - - - - x o
    \*   - - - x o -
    \*   - - . o - -
    \*   - . o - - -
    \*   x . - - - -
    [side |-> 6,
     opening |-> <<5, 11, 10, 16, 15, 21, 30, 26>>,
     arena |-> {0, 1, 20, 25, 31}],
    \* side 7, edges
    \*   o - - - - - -
    \*   o - - - - - -
    \*   o - - - - . -
    \*   o - - . - - -
    \*   . - - - - - -
    \*   - - - - - - -
    \*   x x x . x x .
    [side |-> 7,
     opening |-> <<42, 0, 43, 7, 44, 14, 46, 21, 47>>,
     arena |-> {19, 24, 28, 45, 48}],
    \* side 3, short game
    \*   x o .
    \*   o x .
    \*   . - -
    [side |-> 3,
     opening |-> <<0, 1, 4, 3>>,
     arena |-> {2, 5, 6}],
    \* side 7, nearly full
    \*   . o x x x o o
    \*   x x x o o o x
    \*   x o x o x o o
    \*   o x o . o x x
    \*   o x x x o o x
    \*   x x o o o x x
    \*   o x o o o x .
    [side |-> 7,
     opening |-> <<2, 1, 3, 5, 4, 6, 7, 10, 8, 11, 9, 12, 13, 15, 14, 17, 16,
                   19, 18, 20, 22, 21, 26, 23, 27, 25, 29, 28, 30, 32, 31, 33,
                   34, 37, 35, 38, 36, 39, 40, 42, 41, 44, 43, 45, 47, 46>>,
     arena |-> {0, 24, 48}],
    \* side 10 and side 19, the largest: no game is played on them, their
    \* moves are only written and read as labels
    [side |-> 10,
     opening |-> <<>>,
     arena |-> {}],
    [side |-> 19,
     opening |-> <<>>,
     arena |-> {}]
>>

\* the games that are played
GameBooks == {g \in 1 .. Len(Books) : Books[g].arena # {}}

\* the short game of side 3
ShortGame == CHOOSE g \in GameBooks : Books[g].opening = <<0, 1, 4, 3>>

\* the games of the cached traversal: the boards of side 1 and 2 and the
\* short game of side 3
PerftBooks == {1, 2, ShortGame}

\* the nearly full game of side 7
NearlyFull == CHOOSE g \in GameBooks : Len(Books[g].opening) = 46

\* the games in which make_random_move is called, once the opening has been
\* played: every empty cell of these boards is then in the arena
RandomBooks == {2, 5, NearlyFull}

\* the games whose boards are decoded from hand-edited texts
DecodeBooks == {1, 2, ShortGame}

----------------------------------------------------------------------------
(* Player, Move, Board *)

\* the const generic SIDE_LENGTH of the Board being exercised
SIDE_LENGTH == Books[book].side

\* the range of a row or column index
Idx == 0 .. (SIDE_LENGTH - 1)

\* enum Player
Player == {"None", "X", "O"}

\* impl Neg for Player
Neg(p) ==
    CASE p = "X" -> "O"
      [] p = "O" -> "X"
      [] OTHER -> "panic"

\* Move::null and Move::is_null; a Move is its index, a u16
null == U16_MAX

is_null(mv) == mv = U16_MAX

\* Board::new
Board_new ==
    [cells |-> [i \in Idx |-> [j \in Idx |-> "None"]],
     last_move |-> <<>>,
     ply |-> 0]

\* a bug: the parity test is the wrong way round
turn_inverted(b) == IF b.ply % 2 = 0 THEN "O" ELSE "X"

\* Board::turn
turn(b) == IF b.ply % 2 = 0 THEN "X" ELSE "O"

\* the cell at position i of self.cells.iter().flatten()
flat(b, i) == b.cells[i \div SIDE_LENGTH][i % SIDE_LENGTH]

\* Board::make_move panics: the debug assertion on the null move, and the
\* bounds check of self.cells[i][j]
make_move_panics(b, mv) == is_null(mv) \/ (mv \div SIDE_LENGTH) >= SIDE_LENGTH

\* a bug: row and column are exchanged
make_move_transposed(b, mv) ==
    LET i == mv \div SIDE_LENGTH
        j == mv % SIDE_LENGTH
    IN  [cells |-> [b.cells EXCEPT ![j][i] = turn(b)],
         last_move |-> <<mv>>,
         ply |-> b.ply + 1]

\* a bug: the stone of the player who is not to move is placed
make_move_wrong_stone(b, mv) ==
    LET i == mv \div SIDE_LENGTH
        j == mv % SIDE_LENGTH
    IN  [cells |-> [b.cells EXCEPT ![i][j] = Neg(turn(b))],
         last_move |-> <<mv>>,
         ply |-> b.ply + 1]

\* Board::make_move, when it does not panic
make_move(b, mv) ==
    LET i == mv \div SIDE_LENGTH
        j == mv % SIDE_LENGTH
    IN  [cells |-> [b.cells EXCEPT ![i][j] = turn(b)],
         last_move |-> <<mv>>,
         ply |-> b.ply + 1]

----------------------------------------------------------------------------
(* Board::row_along and Board::outcome *)

\* a bug: the tests against the last row and the last column are missing
at_edge_no_upper(e_x, e_y, r, c) == (e_x < 0 /\ r = 0) \/ (e_y < 0 /\ c = 0)

\* the boundary test of row_along for a scan moving by (e_x, e_y): the four
\* disjuncts of lines 197-200 and 213-216, and with (e_x, e_y) = (-D_X, -D_Y)
\* those of lines 224-227 and 240-243
at_edge(e_x, e_y, r, c) ==
    \/ e_x < 0 /\ r = 0
    \/ e_y < 0 /\ c = 0
    \/ e_x > 0 /\ r = SIDE_LENGTH - 1
    \/ e_y > 0 /\ c = SIDE_LENGTH - 1

\* one of the two loops of row_along, entered at cell (r, c) with the running
\* count: [count, win (count reached 5), oob (a cell outside the array was
\* indexed: a panic)]
RECURSIVE scan_loop(_, _, _, _, _, _)
scan_loop(b, e_x, e_y, r, c, count) ==
    IF ~(r \in Idx /\ c \in Idx)
    THEN [count |-> count, win |-> FALSE, oob |-> TRUE]
    ELSE IF b.cells[r][c] # Neg(turn(b))
    THEN [count |-> count, win |-> FALSE, oob |-> FALSE]
    ELSE IF count + 1 = 5
    THEN [count |-> count + 1, win |-> TRUE, oob |-> FALSE]
    ELSE IF at_edge(e_x, e_y, r, c)
    THEN [count |-> count + 1, win |-> FALSE, oob |-> FALSE]
    ELSE scan_loop(b, e_x, e_y, r + e_x, c + e_y, count + 1)

\* a bug: the scan in the negative direction starts its own count
row_along_recount(b, D_X, D_Y, row, col) ==
    LET start == [count |-> 1, win |-> FALSE, oob |-> FALSE]
        up    == IF at_edge(D_X, D_Y, row, col) THEN start
                 ELSE scan_loop(b, D_X, D_Y, row + D_X, col + D_Y, 1)
    IN  IF up.win \/ up.oob \/ at_edge(-D_X, -D_Y, row, col) THEN up
        ELSE scan_loop(b, -D_X, -D_Y, row - D_X, col - D_Y, 1)

\* Board::row_along::<D_X, D_Y>(row, col)
row_along(b, D_X, D_Y, row, col) ==
    LET start == [count |-> 1, win |-> FALSE, oob |-> FALSE]
        up    == IF at_edge(D_X, D_Y, row, col) THEN start
                 ELSE scan_loop(b, D_X, D_Y, row + D_X, col + D_Y, 1)
    IN  IF up.win \/ up.oob \/ at_edge(-D_X, -D_Y, row, col) THEN up
        ELSE scan_loop(b, -D_X, -D_Y, row - D_X, col - D_Y, up.count)

\* the four axes in the order outcome tries them
Axes == << <<0, 1>>, <<1, 0>>, <<1, 1>>, <<1, -1>> >>

\* the short-circuit disjunction of lines 266-269 from axis k on:
\* "win", "none" or "panic"
RECURSIVE any_axis(_, _, _, _)
any_axis(b, row, col, k) ==
    IF k > Len(Axes) THEN "none"
    ELSE LET r == row_along(b, Axes[k][1], Axes[k][2], row, col)
         IN  IF r.oob THEN "panic"
             ELSE IF r.win THEN "win"
             ELSE any_axis(b, row, col, k + 1)

\* a bug: the full board is tested before the lines through the last move
outcome_draw_first(b) ==
    IF b.last_move = <<>> THEN <<>>
    ELSE LET index == b.last_move[1]
             row   == index \div SIDE_LENGTH
             col   == index % SIDE_LENGTH
         IN  IF b.ply = SIDE_LENGTH * SIDE_LENGTH THEN <<"None">>
             ELSE IF any_axis(b, row, col, 1) = "win" THEN <<Neg(turn(b))>>
             ELSE <<>>

\* a bug: row and column of the last move are taken the other way round
outcome_transposed(b) ==
    IF b.last_move = <<>> THEN <<>>
    ELSE LET index == b.last_move[1]
             row   == index % SIDE_LENGTH
             col   == index \div SIDE_LENGTH
             line  == any_axis(b, row, col, 1)
         IN  IF line = "panic" THEN <<"panic">>
             ELSE IF line = "win" THEN <<Neg(turn(b))>>
             ELSE IF b.ply = SIDE_LENGTH * SIDE_LENGTH THEN <<"None">>
             ELSE <<>>

\* Board::outcome: <<>> in progress, <<"None">> a draw, <<p>> a win of p
outcome(b) ==
    IF b.last_move = <<>> THEN <<>>
    ELSE LET index == b.last_move[1]
             row   == index \div SIDE_LENGTH
             col   == index % SIDE_LENGTH
             line  == any_axis(b, row, col, 1)
         IN  IF line = "panic" THEN <<"panic">>
             ELSE IF line = "win" THEN <<Neg(turn(b))>>
             ELSE IF b.ply = SIDE_LENGTH * SIDE_LENGTH THEN <<"None">>
             ELSE <<>>

----------------------------------------------------------------------------
(* Board::generate_moves, Board::feature_map *)

\* self.cells.iter().flatten().enumerate(): the (i, c) pairs the two loops
\* run over, row by row
enumerate_cells(b) ==
    [k \in 1 .. (SIDE_LENGTH * SIDE_LENGTH) |-> <<k - 1, flat(b, k - 1)>>]

\* the moves of a sequence of (i, c) pairs: Move { index: i as u16 }
as_moves(pairs) == [k \in 1 .. Len(pairs) |-> pairs[k][1] % (U16_MAX + 1)]

\* the calls made before the loop returns.  The callback is a counting
\* closure that returns true at its stop_at-th call (never when stop_at = 0)
until_true(calls, stop_at) ==
    IF stop_at > 0 /\ stop_at < Len(calls)
    THEN SubSeq(calls, 1, stop_at)
    ELSE calls

\* a bug: the callback's answer is dropped and the scan goes on
generate_moves_no_stop(b, stop_at) ==
    as_moves(SelectSeq(enumerate_cells(b), LAMBDA ic : ic[2] = "None"))

\* a bug: the callback is called for occupied cells too
generate_moves_all_cells(b, stop_at) ==
    until_true(as_moves(enumerate_cells(b)), stop_at)

\* Board::generate_moves: the moves the callback is called with, in order
generate_moves(b, stop_at) ==
    until_true(as_moves(SelectSeq(enumerate_cells(b),
                                  LAMBDA ic : ic[2] = "None")), stop_at)

\* Board::feature_map: the (index, player) pairs the callback is called with
feature_map(b) == SelectSeq(enumerate_cells(b), LAMBDA ic : ic[2] # "None")

----------------------------------------------------------------------------
(* Board::make_random_move.  rng(lo, hi) is the caller's sampler.           *)

\* a bug: the threshold is 0.9
mostly_full_ninety(b) == 10 * b.ply > 9 * (SIDE_LENGTH * SIDE_LENGTH)

\* filled_factor > 0.95 (lines 312-315).  The f64 quotient of ply and
\* SIDE_LENGTH^2 compares with the f64 0.95 as the fractions do: a quotient
\* that is not 19/20 is farther from it than the rounding of either
mostly_full(b) == 20 * b.ply > 19 * (SIDE_LENGTH * SIDE_LENGTH)

\* the SmallVec of lines 316-320: the callback pushes and returns false
collect_moves(b) == generate_moves(b, 0)

\* a bug: the sampled position is not looked up in the list of moves but
\* taken for a cell
pick_sampled_raw(b, index) == make_move(b, index % (U16_MAX + 1))

\* lines 321-322: the move at the sampled position of the list is made
pick_sampled(b, index) == make_move(b, collect_moves(b)[index + 1])

\* the test of the rejection loop (line 329)
sample_accepted(b, index) ==
    b.cells[index \div SIDE_LENGTH][index % SIDE_LENGTH] = "None"

----------------------------------------------------------------------------
(* perft and perft_cached (src/perft.rs).  The counts are u64; within the  *)
(* bounds of the model they stay below 2^31.                               *)

RECURSIVE perft(_, _)

\* the closure of lines 21-26 called with moves[lo..hi], first half then
\* second half: the sum of the children's counts
RECURSIVE perft_children(_, _, _, _, _)
perft_children(b, moves, lo, hi, depth) ==
    IF lo > hi THEN 0
    ELSE IF lo = hi THEN perft(make_move(b, moves[lo]), depth - 1)
    ELSE perft_children(b, moves, lo, (lo + hi) \div 2, depth)
         + perft_children(b, moves, ((lo + hi) \div 2) + 1, hi, depth)

\* a bug: the depth-1 shortcut counts the position itself too
perft_off_by_one(b, depth) ==
    IF depth = 0 THEN 1
    ELSE IF depth = 1 THEN Len(generate_moves(b, 0)) + 1
    ELSE perft_children(b, generate_moves(b, 0), 1,
                        Len(generate_moves(b, 0)), depth)

\* a bug: a finished game is taken for a leaf without moves
perft_stops_at_terminal(b, depth) ==
    IF depth = 0 THEN 1
    ELSE IF outcome(b) # <<>> THEN 0
    ELSE IF depth = 1 THEN Len(generate_moves(b, 0))
    ELSE perft_children(b, generate_moves(b, 0), 1,
                        Len(generate_moves(b, 0)), depth)

\* perft
perft(b, depth) ==
    IF depth = 0 THEN 1
    ELSE IF depth = 1 THEN Len(generate_moves(b, 0))
    ELSE perft_children(b, generate_moves(b, 0), 1,
                        Len(generate_moves(b, 0)), depth)

\* impl PartialEq / Hash for Board: what a Board is compared and hashed by
board_key(b) == b.cells

\* the key of the HashMap<(Board, u8), u64>
cache_key(b, depth) == <<board_key(b), depth>>

RECURSIVE perft_cached(_, _, _)

\* the closure of lines 56-61 called with moves[lo..hi], first half then
\* second half, starting from the cache c: [count of these children, cache
\* afterwards]
RECURSIVE cached_children(_, _, _, _, _, _)
cached_children(b, moves, lo, hi, depth, c) ==
    CASE lo > hi -> [count |-> 0, cache |-> c]
      [] lo = hi -> perft_cached(make_move(b, moves[lo]), depth - 1, c)
      [] lo < hi ->
           LET left  == cached_children(b, moves, lo, (lo + hi) \div 2,
                                        depth, c)
               right == cached_children(b, moves, ((lo + hi) \div 2) + 1, hi,
                                        depth, left.cache)
           IN  [count |-> left.count + right.count, cache |-> right.cache]

\* a bug: the cache is looked up by the board alone, whatever the depth
perft_cached_any_depth(b, depth, c) ==
    CASE depth = 0 -> [count |-> 1, cache |-> c]
      [] depth = 1 -> [count |-> Len(generate_moves(b, 0)), cache |-> c]
      [] depth > 1 /\ (\E key \in DOMAIN c : key[1] = board_key(b)) ->
           [count |-> c[CHOOSE key \in DOMAIN c : key[1] = board_key(b)],
            cache |-> c]
      [] depth > 1 /\ ~(\E key \in DOMAIN c : key[1] = board_key(b)) ->
           LET r == cached_children(b, generate_moves(b, 0), 1,
                                    Len(generate_moves(b, 0)), depth, c)
           IN  [count |-> r.count,
                cache |-> (cache_key(b, depth) :> r.count) @@ r.cache]

\* a bug: only depth 0 bypasses the cache
perft_cached_no_bypass(b, depth, c) ==
    CASE depth = 0 -> [count |-> 1, cache |-> c]
      [] depth > 0 /\ cache_key(b, depth) \in DOMAIN c ->
           [count |-> c[cache_key(b, depth)], cache |-> c]
      [] depth > 0 /\ cache_key(b, depth) \notin DOMAIN c ->
           LET r == cached_children(b, generate_moves(b, 0), 1,
                                    Len(generate_moves(b, 0)), depth, c)
           IN  [count |-> r.count,
                cache |-> (cache_key(b, depth) :> r.count) @@ r.cache]

\* perft_cached: [count returned, cache afterwards]
perft_cached(b, depth, c) ==
    CASE depth = 0 -> [count |-> 1, cache |-> c]
      [] depth = 1 -> [count |-> Len(generate_moves(b, 0)), cache |-> c]
      [] depth > 1 /\ cache_key(b, depth) \in DOMAIN c ->
           [count |-> c[cache_key(b, depth)], cache |-> c]
      [] depth > 1 /\ cache_key(b, depth) \notin DOMAIN c ->
           LET r == cached_children(b, generate_moves(b, 0), 1,
                                    Len(generate_moves(b, 0)), depth, c)
           IN  [count |-> r.count,
                cache |-> (cache_key(b, depth) :> r.count) @@ r.cache]

----------------------------------------------------------------------------
(* Board::fen and impl FromStr for Board *)

DigitChars == <<"0", "1", "2", "3", "4", "5", "6", "7", "8", "9">>

\* u16::to_string
RECURSIVE to_string(_)
to_string(n) ==
    IF n < 10 THEN <<DigitChars[n + 1]>>
    ELSE to_string(n \div 10) \o <<DigitChars[(n % 10) + 1]>>

\* the character fen pushes for a cell (lines 288-292)
cell_char(p) ==
    CASE p = "None" -> "."
      [] p = "X" -> "x"
      [] p = "O" -> "o"

\* the loop over the rows from row i on: each row's characters, then '/'
RECURSIVE fen_rows(_, _)
fen_rows(b, i) ==
    IF i >= SIDE_LENGTH THEN <<>>
    ELSE [j \in 1 .. SIDE_LENGTH |-> cell_char(b.cells[i][j - 1])]
         \o <<"/">> \o fen_rows(b, i + 1)

\* String::pop
pop(str) == IF Len(str) = 0 THEN str ELSE SubSeq(str, 1, Len(str) - 1)

\* a bug: the '/' after the last row is not removed
fen_keeps_slash(b) ==
    fen_rows(b, 0) \o <<" ">> \o <<cell_char(turn(b))>> \o <<" ">>
        \o to_string(b.ply)

\* Board::fen
fen(b) ==
    pop(fen_rows(b, 0)) \o <<" ">> \o <<cell_char(turn(b))>> \o <<" ">>
        \o to_string(b.ply)

\* char::is_whitespace, on the characters of the model
is_whitespace(ch) == ch \in {" ", "\t", "\n", "\r"}

\* the k-th smallest element of a set of positions
nth(positions, k) ==
    CHOOSE p \in positions : Cardinality({q \in positions : q < p}) = k - 1

\* str::split_whitespace: the maximal pieces free of whitespace, in order
split_whitespace(str) ==
    LET starts == {i \in 1 .. Len(str) :
                      /\ ~is_whitespace(str[i])
                      /\ i = 1 \/ is_whitespace(str[i - 1])}
        stops  == {i \in 1 .. Len(str) :
                      /\ ~is_whitespace(str[i])
                      /\ i = Len(str) \/ is_whitespace(str[i + 1])}
    IN  [k \in 1 .. Cardinality(starts) |->
            SubSeq(str, nth(starts, k), nth(stops, k))]

\* str::split(sep): the pieces between the separators, empty ones too, one
\* piece more than there are separators
split(str, sep) ==
    LET seps == {i \in 1 .. Len(str) : str[i] = sep}
        edge == seps \cup {0, Len(str) + 1}
    IN  [k \in 1 .. (Cardinality(seps) + 1) |->
            SubSeq(str, nth(edge, k) + 1, nth(edge, k + 1) - 1)]

\* the value of a decimal digit, or -1
digit_value(ch) ==
    IF \E d \in 0 .. 9 : DigitChars[d + 1] = ch
    THEN CHOOSE d \in 0 .. 9 : DigitChars[d + 1] = ch
    ELSE -1

\* the digits str[i..] read onto acc; -1 on a character that is no digit
\* or a value above u16::MAX
RECURSIVE parse_digits(_, _, _)
parse_digits(str, i, acc) ==
    IF i > Len(str) THEN acc
    ELSE IF digit_value(str[i]) < 0 THEN -1
    ELSE IF acc * 10 + digit_value(str[i]) > U16_MAX THEN -1
    ELSE parse_digits(str, i + 1, acc * 10 + digit_value(str[i]))

\* str::parse::<u16>().ok(): an optional '+', then at least one digit
parse_u16(str) ==
    LET digits == IF Len(str) > 0 /\ str[1] = "+" THEN Tail(str) ELSE str
        value  == parse_digits(digits, 1, 0)
    IN  IF Len(digits) = 0 \/ value < 0 THEN <<>> ELSE <<value>>

\* what from_str returns
Ok(b) == [kind |-> "Ok", board |-> <<b>>, msg |-> ""]

Err(msg) == [kind |-> "Err", board |-> <<>>, msg |-> msg]

Panic == [kind |-> "panic", board |-> <<>>, msg |-> ""]

\* the inner loop of from_str over row[k..] of row i (lines 485-496), then
\* the test of line 497: the board so far, or the error
RECURSIVE parse_row(_, _, _, _, _)
parse_row(out, i, row, k, col) ==
    IF k > Len(row)
    THEN IF col # SIDE_LENGTH THEN Err("Too few columns in FEN string")
         ELSE Ok(out)
    ELSE IF col >= SIDE_LENGTH THEN Err("Too many columns in FEN string")
    ELSE IF row[k] \notin {"x", "o", "."}
    THEN Err("Invalid character in FEN string")
    ELSE IF i >= SIDE_LENGTH THEN Panic
    ELSE parse_row([out EXCEPT !.cells[i][col] =
                        CASE row[k] = "x" -> "X"
                          [] row[k] = "o" -> "O"
                          [] row[k] = "." -> "None"],
                   i, row, k + 1, col + 1)

\* the loop of line 483 over rows[n..]; row n has index n - 1
RECURSIVE parse_rows(_, _, _)
parse_rows(out, rows, n) ==
    IF n > Len(rows) THEN Ok(out)
    ELSE LET r == parse_row(out, n - 1, rows[n], 1, 0)
         IN  IF r.kind # "Ok" THEN r
             ELSE parse_rows(r.board[1], rows, n + 1)

\* a bug: the turn part is read but not compared against the ply part
from_str_trusts_turn(str) ==
    LET parts == split_whitespace(str)
    IN  IF Len(parts) < 1 THEN Err("No board part found in FEN string")
        ELSE IF Len(parts) < 2 THEN Err("No turn part found in FEN string")
        ELSE IF parts[2][1] \notin {"x", "o"}
        THEN Err("Invalid turn part found in FEN string")
        ELSE IF Len(parts) < 3 \/ parse_u16(parts[3]) = <<>>
        THEN Err("No ply part found in FEN string")
        ELSE parse_rows([Board_new EXCEPT !.ply = parse_u16(parts[3])[1]],
                        split(parts[1], "/"), 1)

\* impl FromStr for Board
from_str(str) ==
    LET parts == split_whitespace(str)
    IN  IF Len(parts) < 1 THEN Err("No board part found in FEN string")
        ELSE IF Len(parts) < 2 THEN Err("No turn part found in FEN string")
        ELSE IF parts[2][1] \notin {"x", "o"}
        THEN Err("Invalid turn part found in FEN string")
        ELSE IF Len(parts) < 3 \/ parse_u16(parts[3]) = <<>>
        THEN Err("No ply part found in FEN string")
        ELSE LET out == [Board_new EXCEPT !.ply = parse_u16(parts[3])[1]]
                 turn_part == IF parts[2][1] = "x" THEN "X" ELSE "O"
             IN  IF turn(out) # turn_part
                 THEN Err("Turn part does not match ply part in FEN string")
                 ELSE parse_rows(out, split(parts[1], "/"), 1)

----------------------------------------------------------------------------
(* impl Display for Move and impl FromStr for Move.  A label is the         *)
(* sequence of the bytes of its text (s.as_bytes()).                        *)

\* b'A' and b'0'
BYTE_A == 65

BYTE_0 == 48

\* the bytes of a text of decimal digits
as_bytes(digits) == [k \in 1 .. Len(digits) |-> BYTE_0 + digit_value(digits[k])]

\* Move::fmt of Display: the letter of index % SIDE_LENGTH, then the number
\* index / SIDE_LENGTH + 1
Move_fmt(index) ==
    LET row == index % SIDE_LENGTH
        col == index \div SIDE_LENGTH
    IN  <<BYTE_A + row>> \o as_bytes(to_string(col + 1))

\* u8::to_ascii_uppercase
to_ascii_uppercase(byte) == IF byte \in 97 .. 122 THEN byte - 32 ELSE byte

\* the result of u8 arithmetic: out of 0..255 it panics in a build with
\* overflow checks (debug) and wraps in one without (release)
u8_overflows(n) == n < 0 \/ n > 255

u8_wrap(n) == n % 256

\* what Move::from_str returns
OkMove(index) == [kind |-> "Ok", index |-> index, msg |-> ""]

ErrMove(msg) == [kind |-> "Err", index |-> -1, msg |-> msg]

PanicMove == [kind |-> "panic", index |-> -1, msg |-> ""]

\* a bug: of two digits the first is taken for the units
Move_from_str_digits_swapped(bytes, debug) ==
    IF Len(bytes) # 2 /\ Len(bytes) # 3
    THEN ErrMove("Invalid move string, must be 2 or 3 characters")
    ELSE LET row == to_ascii_uppercase(bytes[1])
             d1  == bytes[2] - BYTE_0
             col == IF Len(bytes) = 3
                    THEN u8_wrap(u8_wrap(d1) + u8_wrap(bytes[3] - BYTE_0) * 10)
                    ELSE u8_wrap(d1)
             index == (col - 1) * SIDE_LENGTH + (row - BYTE_A)
         IN  IF row < BYTE_A \/ row > BYTE_A + SIDE_LENGTH
             THEN ErrMove("Invalid row in move string")
             ELSE IF col = 0 THEN ErrMove("Invalid column in move string")
             ELSE IF index >= SIDE_LENGTH * SIDE_LENGTH
             THEN ErrMove("Invalid index in move string")
             ELSE OkMove(index)

\* Move::from_str (lines 86-105) in a build with (debug) or without
\* overflow checks
Move_from_str(bytes, debug) ==
    IF Len(bytes) # 2 /\ Len(bytes) # 3
    THEN ErrMove("Invalid move string, must be 2 or 3 characters")
    ELSE LET row  == to_ascii_uppercase(bytes[1])
             \* bytes[1] - b'0', the default handed to map_or
             d1   == bytes[2] - BYTE_0
             \* b - b'0' and (bytes[1] - b'0') * 10 of the closure
             d2   == bytes[3] - BYTE_0
             tens == u8_wrap(d1) * 10
             sum  == u8_wrap(d2) + u8_wrap(tens)
             col  == IF Len(bytes) = 3 THEN u8_wrap(sum) ELSE u8_wrap(d1)
             overflow ==
                 \/ u8_overflows(d1)
                 \/ /\ Len(bytes) = 3
                    /\ u8_overflows(d2) \/ u8_overflows(tens)
                           \/ u8_overflows(sum)
             index == (col - 1) * SIDE_LENGTH + (row - BYTE_A)
         IN  IF row < BYTE_A \/ row > BYTE_A + SIDE_LENGTH
             THEN ErrMove("Invalid row in move string")
             ELSE IF debug /\ overflow THEN PanicMove
             ELSE IF col = 0 THEN ErrMove("Invalid column in move string")
             ELSE IF index >= SIDE_LENGTH * SIDE_LENGTH
             THEN ErrMove("Invalid index in move string")
             ELSE OkMove(index)

----------------------------------------------------------------------------
(* The operations as the caller's steps *)

\* the moves the caller may make next in the game being played
NextMoves ==
    IF board.ply < Len(Books[book].opening)
    THEN {Books[book].opening[board.ply + 1]}
    ELSE {mv \in Books[book].arena : flat(board, mv) = "None"}

InitIn(games) ==
    /\ book \in games
    /\ board = Board_new
    /\ ret = [op |-> "new"]
    /\ cache = [map |-> <<>>, calls |-> 0]

Init == InitIn(GameBooks)

InitPerft == InitIn(PerftBooks)

MakeMove ==
    \E mv \in NextMoves :
        /\ ~make_move_panics(board, mv)
        /\ board' = make_move(board, mv)
        /\ ret' = [op |-> "make_move", mv |-> mv]
        /\ UNCHANGED <<book, cache>>

Turn ==
    /\ ret' = [op |-> "turn", val |-> turn(board)]
    /\ UNCHANGED <<book, board, cache>>

Outcome ==
    /\ ret' = [op |-> "outcome", val |-> outcome(board)]
    /\ UNCHANGED <<book, board, cache>>

GenerateMoves ==
    \E stop_at \in 0 .. MaxStop :
        /\ ret' = [op |-> "generate_moves", stop_at |-> stop_at,
                   calls |-> generate_moves(board, stop_at)]
        /\ UNCHANGED <<book, board, cache>>

FeatureMap ==
    /\ ret' = [op |-> "feature_map", calls |-> feature_map(board)]
    /\ UNCHANGED <<book, board, cache>>

Fen ==
    /\ ret' = [op |-> "fen", val |-> fen(board)]
    /\ UNCHANGED <<book, board, cache>>

\* the caller decodes the text fen has just returned
FromStr ==
    /\ ret.op = "fen"
    /\ ret' = [op |-> "from_str", text |-> ret.val, val |-> from_str(ret.val)]
    /\ UNCHANGED <<book, board, cache>>

\* perft(board, depth) on a copy of the board
Perft ==
    \E depth \in ShallowDepths :
        /\ ret' = [op |-> "perft", depth |-> depth, val |-> perft(board, depth)]
        /\ UNCHANGED <<book, board, cache>>

\* perft_cached(board, depth, &mut cache) on a copy of the board, once the
\* opening has been played
PerftCached ==
    \E depth \in 0 .. MaxCachedDepth :
        /\ board.ply >= Len(Books[book].opening)
        /\ cache.calls < MaxCachedCalls
        /\ LET r == perft_cached(board, depth, cache.map)
           IN  /\ ret' = [op |-> "perft_cached", depth |-> depth,
                          val |-> r.count, before |-> cache.map]
               /\ cache' = [map |-> r.cache, calls |-> cache.calls + 1]
        /\ UNCHANGED <<book, board>>

\* the grid part of fen(b): the rows joined by '/'
grid_text(b) == pop(fen_rows(b, 0))

\* hand-edited grid parts: the grid of b as it is, with a row added or
\* removed, with a symbol added to or removed from the last row, or with its
\* first symbol replaced by one that is no cell symbol
GridEdits(b) ==
    {[edit |-> "none", text |-> grid_text(b)],
     [edit |-> "more_rows",
      text |-> grid_text(b) \o <<"/">> \o [j \in 1 .. SIDE_LENGTH |-> "."]],
     [edit |-> "more_rows", text |-> grid_text(b) \o <<"/", "x">>],
     [edit |-> "more_rows", text |-> grid_text(b) \o <<"/">>],
     [edit |-> "fewer_rows",
      text |-> SubSeq(grid_text(b), 1,
                      (SIDE_LENGTH - 1) * (SIDE_LENGTH + 1) - 1)],
     [edit |-> "more_symbols", text |-> grid_text(b) \o <<"o">>],
     [edit |-> "fewer_symbols", text |-> pop(grid_text(b))],
     [edit |-> "bad_symbol", text |-> <<"z">> \o Tail(grid_text(b))]}

\* the side-to-move symbols tried
TurnEdits == {"x", "o"}

\* ply parts: the ply of b, the ply after it, and texts that are no u16
\* (value -1)
PlyEdits(b) ==
    {[value |-> b.ply, text |-> to_string(b.ply)],
     [value |-> b.ply + 1, text |-> to_string(b.ply + 1)],
     [value |-> -1, text |-> <<"-", "1">>],
     [value |-> -1, text |-> <<"7", "0", "0", "0", "0">>],
     [value |-> -1, text |-> <<"x">>]}

\* the caller decodes a hand-edited text of the board
Decode ==
    \E g \in GridEdits(board), t \in TurnEdits, p \in PlyEdits(board) :
        /\ ret' = [op |-> "decode", edit |-> g.edit, turn |-> t,
                   ply |-> p.value,
                   text |-> g.text \o <<" ", t, " ">> \o p.text,
                   val |-> from_str(g.text \o <<" ", t, " ">> \o p.text)]
        /\ UNCHANGED <<book, board, cache>>

Next ==
    \/ MakeMove
    \/ Turn
    \/ Outcome
    \/ GenerateMoves
    \/ FeatureMap
    \/ Fen
    \/ FromStr
    \/ Perft

Spec == Init /\ [][Next]_vars

NextPerft ==
    \/ MakeMove
    \/ PerftCached

SpecPerft == InitPerft /\ [][NextPerft]_vars

InitDecode == InitIn(DecodeBooks)

NextDecode ==
    \/ MakeMove
    \/ Decode

SpecDecode == InitDecode /\ [][NextDecode]_vars

\* mv.to_string() of a move of the grid
MoveToString ==
    \E index \in 0 .. (SIDE_LENGTH * SIDE_LENGTH - 1) :
        /\ ret' = [op |-> "to_string", mv |-> index, val |-> Move_fmt(index)]
        /\ UNCHANGED <<book, board, cache>>

\* Move::from_str of the label to_string has just returned, in either build
MoveFromStr ==
    \E debug \in BOOLEAN :
        /\ ret.op = "to_string"
        /\ ret' = [op |-> "move_from_str", mv |-> ret.mv, text |-> ret.val,
                   debug |-> debug, val |-> Move_from_str(ret.val, debug)]
        /\ UNCHANGED <<book, board, cache>>

InitMove == InitIn(1 .. Len(Books))

NextMove ==
    \/ MoveToString
    \/ MoveFromStr

SpecMove == InitMove /\ [][NextMove]_vars

\* the first bytes of the labels a caller hands to Move::from_str: the digit
\* 0, the byte before A, A, B, a, and in either case the last letter of the
\* grid and the letter after it, then the letter after that
FirstBytes ==
    {BYTE_0, BYTE_A - 1, BYTE_A, BYTE_A + 1, 97,
     BYTE_A + SIDE_LENGTH - 1, BYTE_A + SIDE_LENGTH, BYTE_A + SIDE_LENGTH + 1,
     97 + SIDE_LENGTH - 1, 97 + SIDE_LENGTH}

\* the bytes that follow: the byte before 0, the digits 0, 1, 2, 9, the
\* byte after 9, the letter A, and the last digits of SIDE and SIDE + 1
RestBytes ==
    {BYTE_0 - 1, BYTE_0, BYTE_0 + 1, BYTE_0 + 2, BYTE_0 + 9, BYTE_0 + 10,
     BYTE_A, BYTE_0 + (SIDE_LENGTH % 10), BYTE_0 + ((SIDE_LENGTH + 1) % 10)}

\* the labels: one to four bytes
LabelTexts ==
    {<<f>> : f \in FirstBytes}
        \cup {<<f, r>> : f \in FirstBytes, r \in RestBytes}
        \cup {<<f, r, q>> : f \in FirstBytes, r \in RestBytes, q \in RestBytes}
        \cup {<<f, r, q, BYTE_0 + 1>> :
                  f \in FirstBytes, r \in RestBytes, q \in RestBytes}

\* Move::from_str of a label the caller wrote, in either build: the function
\* reads nothing but its argument, so one call is made
MoveFromText ==
    /\ ret.op = "new"
    /\ \E text \in LabelTexts : \E debug \in BOOLEAN :
           /\ ret' = [op |-> "move_from_text", text |-> text, debug |-> debug,
                      val |-> Move_from_str(text, debug)]
           /\ UNCHANGED <<book, board, cache>>

SpecLabel == InitMove /\ [][MoveFromText]_vars

\* the caller breaks the precondition of make_move on a board that was
\* reached by moves on empty cells: the null move, or a move that points at
\* an occupied cell.  A panic leaves the board as it was
MakeIllegalMove ==
    \E mv \in {null} \cup {i \in 0 .. (SIDE_LENGTH * SIDE_LENGTH - 1) :
                              flat(board, i) # "None"} :
        /\ board.ply = Cardinality({i \in 0 .. (SIDE_LENGTH * SIDE_LENGTH - 1) :
                                       flat(board, i) # "None"})
        /\ board' = IF make_move_panics(board, mv) THEN board
                    ELSE make_move(board, mv)
        /\ ret' = [op |-> "make_move_illegal", mv |-> mv,
                   panicked |-> make_move_panics(board, mv),
                   before |-> board]
        /\ UNCHANGED <<book, cache>>

InitMisuse == InitIn(DecodeBooks)

NextMisuse ==
    \/ MakeMove
    \/ MakeIllegalMove

SpecMisuse == InitMisuse /\ [][NextMisuse]_vars

\* a make_random_move call is inside its rejection loop
in_loop == ret.op = "make_random_move" /\ ret.pc = "loop"

\* the caller makes a move of the game, when no call is under way
PlayMove == ~in_loop /\ MakeMove

\* make_random_move on a mostly full board (lines 315-324): one call of the
\* sampler, which returns an index in [0, moves.len())
MakeRandomMoveFull ==
    \E index \in 0 .. (Len(collect_moves(board)) - 1) :
        /\ ~in_loop
        /\ board.ply >= Len(Books[book].opening)
        /\ mostly_full(board)
        /\ board' = pick_sampled(board, index)
        /\ ret' = [op |-> "make_random_move", pc |-> "done",
                   branch |-> "enumerate", samples |-> 1,
                   lo |-> 0, hi |-> Len(collect_moves(board)),
                   before |-> board]
        /\ UNCHANGED <<book, cache>>

\* make_random_move on any other board enters the loop of line 327
MakeRandomMoveEnter ==
    /\ ~in_loop
    /\ board.ply >= Len(Books[book].opening)
    /\ ~mostly_full(board)
    /\ ret' = [op |-> "make_random_move", pc |-> "loop",
               branch |-> "reject", samples |-> 0,
               lo |-> 0, hi |-> SIDE_LENGTH * SIDE_LENGTH,
               before |-> board]
    /\ UNCHANGED <<book, board, cache>>

\* one turn of the loop (lines 328-331): the sampler returns index, a cell
\* of the grid; an empty cell ends the loop and the call (lines 333-335)
RandomSample(index) ==
    /\ in_loop
    /\ index \in ret.lo .. (ret.hi - 1)
    /\ ret' = [ret EXCEPT
                 !.samples = IF @ < MaxSamples THEN @ + 1 ELSE @,
                 !.pc = IF sample_accepted(board, index) THEN "done" ELSE @]
    /\ board' = IF sample_accepted(board, index)
                THEN make_move(board, index % (U16_MAX + 1))
                ELSE board
    /\ UNCHANGED <<book, cache>>

InitRandom == InitIn(RandomBooks)

NextRandom ==
    \/ PlayMove
    \/ MakeRandomMoveFull
    \/ MakeRandomMoveEnter
    \/ \E index \in 0 .. (SIDE_LENGTH * SIDE_LENGTH - 1) : RandomSample(index)

SpecRandom == InitRandom /\ [][NextRandom]_vars

\* a fair sampler: inside the loop every index of the grid (at most 49 cells
\* in the games of RandomBooks) is returned at some time
SpecRandomFair ==
    /\ InitRandom
    /\ [][NextRandom]_vars
    /\ \A index \in 0 .. 48 : WF_vars(RandomSample(index))

\* perft(board, depth) on a copy of a board with few empty cells, at the
\* depths above the shallow ones
PerftDeep ==
    \E depth \in 3 .. MaxDeepDepth :
        /\ Cardinality({i \in 0 .. (SIDE_LENGTH * SIDE_LENGTH - 1) :
                           flat(board, i) = "None"}) <= MaxDeepEmpty
        /\ ret' = [op |-> "perft", depth |-> depth, val |-> perft(board, depth)]
        /\ UNCHANGED <<book, board, cache>>

NextEndgame ==
    \/ MakeMove
    \/ Perft
    \/ PerftDeep

SpecEndgame == Init /\ [][NextEndgame]_vars

\* the caller who asks outcome() before every move and moves only while the
\* game is in progress
PlayInProgress ==
    /\ outcome(board) = <<>>
    /\ MakeMove

NextGame ==
    \/ PlayInProgress
    \/ Outcome

SpecGame == Init /\ [][NextGame]_vars

----------------------------------------------------------------------------
(* What the claims speak of, said without the code's scans *)

\* the flattened indices of the grid
Cells == 0 .. (SIDE_LENGTH * SIDE_LENGTH - 1)

\* the empty cells of b
EmptyCells(b) == {i \in Cells : flat(b, i) = "None"}

\* the number of stones of player p on b
Stones(b, p) == Cardinality({i \in Cells : flat(b, i) = p})

\* the player who made the last move of a board at ply > 0: X moves first
LastMover(b) == IF b.ply % 2 = 1 THEN "X" ELSE "O"

\* horizontal, vertical, diagonal, anti-diagonal
AxisSet == {<<0, 1>>, <<1, 0>>, <<1, 1>>, <<1, -1>>}

\* cell (row, col) lies in n contiguous cells along axis a that all hold p
InRun(b, row, col, p, a, n) ==
    \E k \in 0 .. (n - 1) :
        \A j \in 0 .. (n - 1) :
            LET r == row + (j - k) * a[1]
                c == col + (j - k) * a[2]
            IN  r \in Idx /\ c \in Idx /\ b.cells[r][c] = p

\* the stone of the last move lies in a run of at least n of its colour
LastRun(n) ==
    /\ board.last_move # <<>>
    /\ \E a \in AxisSet :
           InRun(board, board.last_move[1] \div SIDE_LENGTH,
                 board.last_move[1] % SIDE_LENGTH, LastMover(board), a, n)

\* the elements of a sequence
Range(seq) == {seq[k] : k \in 1 .. Len(seq)}

\* a sequence of numbers in strictly increasing order
Ascending(seq) == \A k \in 1 .. (Len(seq) - 1) : seq[k] < seq[k + 1]

----------------------------------------------------------------------------
(* The claims *)

\* C1: when outcome() is called on a board reached by moves on empty cells,
\* it returns a win exactly when the stone at last_move lies in a run of at
\* least 5 stones of the last mover along one of the four axes, and the
\* winner is the player who made last_move, the opponent of turn().
C1_WinIffRunOfFive ==
    (ret.op = "outcome" /\ board.last_move # <<>>) =>
        /\ (ret.val \in {<<"X">>, <<"O">>}) <=> LastRun(5)
        /\ LastRun(5) =>
               /\ ret.val = <<LastMover(board)>>
               /\ ret.val[1] # turn(board)
               /\ ret.val[1] = flat(board, board.last_move[1])

\* outcome() has returned the win of a run of six or more
C1_Witness ==
    /\ ret.op = "outcome"
    /\ LastRun(6)
    /\ ret.val = <<LastMover(board)>>

\* C2: outcome() is InProgress before any move; after a move that completes
\* no run of 5 it is Draw exactly when ply = SIDE*SIDE and InProgress
\* otherwise; a move that fills the board and completes a run of 5 is a win.
C2_DrawOnlyOnFullBoardWithoutFive ==
    ret.op = "outcome" =>
        /\ board.ply = 0 => ret.val = <<>>
        /\ (board.ply > 0 /\ ~LastRun(5)) =>
               ret.val = IF board.ply = SIDE_LENGTH * SIDE_LENGTH
                         THEN <<"None">> ELSE <<>>
        /\ (board.ply = SIDE_LENGTH * SIDE_LENGTH /\ LastRun(5)) =>
               ret.val = <<LastMover(board)>>

\* outcome() was called after the stone that fills the board completed five
C2_Witness ==
    /\ ret.op = "outcome"
    /\ board.ply = SIDE_LENGTH * SIDE_LENGTH
    /\ LastRun(5)
    /\ ret.val \in {<<"X">>, <<"O">>}

\* C3: make_move(mv) on an empty cell puts the stone of the player who was
\* to move on row mv / SIDE, column mv % SIDE, sets last_move to mv, adds 1
\* to ply and changes no other cell; no other operation changes the board.
C3_MakeMoveFrame ==
    [][IF ret'.op = "make_move"
       THEN LET mv == ret'.mv
            IN  /\ mv # null
                /\ flat(board, mv) = "None"
                /\ board'.cells[mv \div SIDE_LENGTH][mv % SIDE_LENGTH]
                       = turn(board)
                /\ board'.last_move = <<mv>>
                /\ board'.ply = board.ply + 1
                /\ \A r, c \in Idx :
                       <<r, c>> # <<mv \div SIDE_LENGTH, mv % SIDE_LENGTH>>
                           => board'.cells[r][c] = board.cells[r][c]
       ELSE board' = board]_vars

\* make_move has placed a stone of O off the main diagonal
C3_Witness ==
    /\ ret.op = "make_move"
    /\ flat(board, ret.mv) = "O"
    /\ ret.mv \div SIDE_LENGTH # ret.mv % SIDE_LENGTH

\* C4: on every board reached by moves on empty cells the number of stones
\* is ply, ply is at most SIDE*SIDE, and there are ceil(ply/2) stones of X
\* and floor(ply/2) of O.
C4_StonesMatchPly ==
    /\ Cardinality(Cells \ EmptyCells(board)) = board.ply
    /\ board.ply <= SIDE_LENGTH * SIDE_LENGTH
    /\ Stones(board, "X") = (board.ply + 1) \div 2
    /\ Stones(board, "O") = board.ply \div 2

\* the board of side 5 has been filled by 25 moves
C4_Witness ==
    /\ ret.op = "make_move"
    /\ SIDE_LENGTH = 5
    /\ board.ply = 25
    /\ EmptyCells(board) = {}

\* C5: turn() is X on the new board and X exactly when ply is even; it is
\* never Player::None, and every make_move changes it to the other player.
C5_TurnFollowsParity ==
    [][/\ ret'.op = "turn" =>
              /\ ret'.val \in {"X", "O"}
              /\ ret'.val = "X" <=> board'.ply % 2 = 0
              /\ board'.ply = 0 => ret'.val = "X"
       /\ ret'.op = "make_move" =>
              /\ {turn(board), turn(board')} = {"X", "O"}]_vars

\* turn() has answered O after an odd number of moves
C5_Witness ==
    /\ ret.op = "turn"
    /\ ret.val = "O"
    /\ board.ply = 3

\* C6: with a callback that never stops it, generate_moves calls it once for
\* each empty cell and for no other, with the cell's row-major index, in
\* increasing order: SIDE*SIDE - ply calls, none with the null move.
C6_EveryEmptyCellOnceInOrder ==
    (ret.op = "generate_moves" /\ ret.stop_at = 0) =>
        /\ Ascending(ret.calls)
        /\ Range(ret.calls) = EmptyCells(board)
        /\ Len(ret.calls) = SIDE_LENGTH * SIDE_LENGTH - board.ply
        /\ board.ply = 0 => Len(ret.calls) = SIDE_LENGTH * SIDE_LENGTH
        /\ null \notin Range(ret.calls)

\* generate_moves has run to the end over a board with stones between its
\* empty cells
C6_Witness ==
    /\ ret.op = "generate_moves"
    /\ ret.stop_at = 0
    /\ Len(ret.calls) >= 2
    /\ \E i \in Cells :
           /\ flat(board, i) # "None"
           /\ ret.calls[1] < i
           /\ i < ret.calls[Len(ret.calls)]

\* C7: when the callback returns true at one of its calls, generate_moves
\* makes no further call: the calls made are the empty cells up to the
\* stopping move, in increasing order.
C7_StopsAtFirstTrue ==
    (ret.op = "generate_moves" /\ ret.stop_at > 0
        /\ Len(ret.calls) >= ret.stop_at) =>
        /\ Len(ret.calls) = ret.stop_at
        /\ Ascending(ret.calls)
        /\ Range(ret.calls)
               = {i \in EmptyCells(board) : i <= ret.calls[ret.stop_at]}

\* generate_moves was stopped with empty cells still ahead
C7_Witness ==
    /\ ret.op = "generate_moves"
    /\ ret.stop_at = 2
    /\ Len(ret.calls) = 2
    /\ board.ply > 0
    /\ \E i \in EmptyCells(board) : i > ret.calls[2]

\* C8: perft(board, 0) = 1 on every board; on the empty board perft at
\* depth 1 is SIDE*SIDE and at depth 2 SIDE*SIDE * (SIDE*SIDE - 1).
C8_PerftSmallDepths ==
    ret.op = "perft" =>
        /\ ret.depth = 0 => ret.val = 1
        /\ (EmptyCells(board) = Cells /\ ret.depth = 1) =>
               ret.val = SIDE_LENGTH * SIDE_LENGTH
        /\ (EmptyCells(board) = Cells /\ ret.depth = 2) =>
               ret.val = SIDE_LENGTH * SIDE_LENGTH
                             * (SIDE_LENGTH * SIDE_LENGTH - 1)

\* perft at depth 2 has counted the 36 * 35 lines of the empty board of
\* side 6
C8_Witness ==
    /\ ret.op = "perft"
    /\ ret.depth = 2
    /\ SIDE_LENGTH = 6
    /\ EmptyCells(board) = Cells
    /\ ret.val = 1260

\* C9: perft_cached returns what perft returns for the same board and
\* depth, on an empty cache and on one filled by earlier calls.
C9_CachedAgreesWithPerft ==
    ret.op = "perft_cached" => ret.val = perft(board, ret.depth)

\* perft_cached has recursed with a cache that an earlier call on another
\* position filled, and counted lines
C9_Witness ==
    /\ ret.op = "perft_cached"
    /\ ret.depth >= 3
    /\ ret.before # <<>>
    /\ cache_key(board, ret.depth) \notin DOMAIN ret.before
    /\ ret.val > 0

\* C10: the text fen() returns for a board reached by moves on empty cells
\* decodes to a board with the same cells, ply and turn(), and that board
\* encodes to the same text.
C10_FenRoundTrip ==
    ret.op = "from_str" =>
        /\ ret.val.kind = "Ok"
        /\ ret.val.board[1].cells = board.cells
        /\ ret.val.board[1].ply = board.ply
        /\ turn(ret.val.board[1]) = turn(board)
        /\ fen(ret.val.board[1]) = ret.text

\* a position of side 6 with a two-digit ply went through fen and back
C10_Witness ==
    /\ ret.op = "from_str"
    /\ ret.val.kind = "Ok"
    /\ SIDE_LENGTH = 6
    /\ board.ply >= 10

\* C11: decoding a text whose side-to-move symbol disagrees with the parity
\* of its ply count (x with an odd ply, o with an even ply) returns a decode
\* error and no board, whatever the grid part is.
C11_TurnMismatchIsAnError ==
    (/\ ret.op = "decode"
     /\ ret.ply >= 0
     /\ (ret.turn = "x") # (ret.ply % 2 = 0)) =>
        /\ ret.val.kind = "Err"
        /\ ret.val.board = <<>>

\* a text whose grid has a row too many and whose ply parses was refused
\* for its turn symbol
C11_Witness ==
    /\ ret.op = "decode"
    /\ ret.edit = "more_rows"
    /\ ret.ply = board.ply + 1
    /\ ret.turn = cell_char(turn(board))
    /\ board.ply > 0
    /\ ret.val = Err("Turn part does not match ply part in FEN string")

\* C12: decoding returns a decode error, and neither aborts nor returns a
\* board, for every malformed text: a grid with more or fewer than SIDE rows,
\* a row with more or fewer than SIDE symbols, a symbol that is no cell
\* symbol, an unparseable ply, or a turn symbol that disagrees with the ply.
C12_MalformedTextIsAnError ==
    (/\ ret.op = "decode"
     /\ \/ ret.edit # "none"
        \/ ret.ply < 0
        \/ (ret.turn = "x") # (ret.ply % 2 = 0)) =>
        /\ ret.val.kind = "Err"
        /\ ret.val.board = <<>>

\* the number a text of digit bytes denotes
RECURSIVE Decimal(_)
Decimal(bytes) ==
    IF bytes = <<>> THEN 0
    ELSE 10 * Decimal(SubSeq(bytes, 1, Len(bytes) - 1))
         + (bytes[Len(bytes)] - BYTE_0)

\* C13: for every move index in [0, SIDE*SIDE), SIDE up to 19, the label is
\* the letter of index % SIDE followed by the number index / SIDE + 1, and
\* parsing the label gives back a move with the same index.
C13_MoveLabelRoundTrip ==
    ret.op = "move_from_str" =>
        /\ ret.text[1] = BYTE_A + (ret.mv % SIDE_LENGTH)
        /\ \A k \in 2 .. Len(ret.text) : ret.text[k] \in 48 .. 57
        /\ Decimal(Tail(ret.text)) = (ret.mv \div SIDE_LENGTH) + 1
        /\ ret.val = OkMove(ret.mv)

\* the last move of the grid of side 19, S19, was parsed back
C13_Witness ==
    /\ ret.op = "move_from_str"
    /\ SIDE_LENGTH = 19
    /\ ret.mv = 360
    /\ ret.text = <<83, 49, 57>>
    /\ ret.val.kind = "Ok"
    /\ ret.val.index = 360

\* C14: in a debug build make_move with the null move or with a move that
\* points at an occupied cell fails loudly, and cells, ply and last_move
\* are as they were before the call.
C14_IllegalMoveFailsLoudly ==
    ret.op = "make_move_illegal" =>
        /\ ret.panicked
        /\ board = ret.before

\* C15: on a board reached by moves on empty cells that has an empty cell,
\* with a sampler that returns a value in [lo, hi), a completed
\* make_random_move has placed one stone of the player to move on a cell
\* that was empty: ply is one more, last_move names the cell and no other
\* cell has changed, in the enumerate branch and in the rejection branch.
C15_RandomMovePlacesOneStone ==
    (ret.op = "make_random_move" /\ ret.pc = "done") =>
        /\ board.ply = ret.before.ply + 1
        /\ Len(board.last_move) = 1
        /\ board.last_move[1] \in EmptyCells(ret.before)
        /\ flat(board, board.last_move[1]) = turn(ret.before)
        /\ \A i \in Cells \ {board.last_move[1]} :
               flat(board, i) = flat(ret.before, i)
        /\ ret.branch = IF mostly_full(ret.before) THEN "enumerate"
                        ELSE "reject"

\* the enumerate branch chose the second of two empty cells
C15_Witness ==
    /\ ret.op = "make_random_move"
    /\ ret.pc = "done"
    /\ ret.branch = "enumerate"
    /\ ret.hi = 2
    /\ Cardinality(EmptyCells(ret.before)) = 2
    /\ \E i \in EmptyCells(ret.before) : i < board.last_move[1]

\* last_move of b is none exactly at ply 0, and otherwise names a cell that
\* holds a stone of the opponent of turn()
LastMoveTracksPly(b) ==
    /\ (b.last_move = <<>>) <=> (b.ply = 0)
    /\ b.last_move # <<>> =>
           /\ b.last_move[1] \in Cells
           /\ flat(b, b.last_move[1]) = Neg(turn(b))

\* C16: for every Board obtained from new, from make_move on empty cells or
\* from decoding a text, last_move is none exactly when ply = 0, and
\* otherwise it is the move applied last, whose cell holds a stone of the
\* opponent of turn().
C16_LastMoveNoneOnlyAtPlyZero ==
    /\ LastMoveTracksPly(board)
    /\ ret.op = "make_move" => board.last_move = <<ret.mv>>
    /\ (ret.op = "decode" /\ ret.val.kind = "Ok") =>
           LastMoveTracksPly(ret.val.board[1])

\* the length of the longest unbroken line of stones of p along axis a
\* that cell (row, col) lies in
RunLength(b, row, col, p, a) ==
    CHOOSE n \in 1 .. SIDE_LENGTH :
        /\ InRun(b, row, col, p, a, n)
        /\ n < SIDE_LENGTH => ~InRun(b, row, col, p, a, n + 1)

\* C17: on every board reached by moves on empty cells, whatever cell the
\* last move is on, the scan of each of the four axes reads only cells of
\* the grid: it stops at the boundary in both directions, its count runs on
\* from the positive into the negative direction, and outcome() does not
\* fail.
C17_WinScanStaysOnTheGrid ==
    board.last_move # <<>> =>
        /\ outcome(board) # <<"panic">>
        /\ \A a \in AxisSet :
               LET row == board.last_move[1] \div SIDE_LENGTH
                   col == board.last_move[1] % SIDE_LENGTH
                   r   == row_along(board, a[1], a[2], row, col)
                   n   == RunLength(board, row, col, LastMover(board), a)
               IN  /\ ~r.oob
                   /\ r.win <=> n >= 5
                   /\ ~r.win => r.count = n

\* outcome() was called after a move into a corner that lies in a line of
\* five or more, on a board of side 5 or more
C17_Witness ==
    /\ ret.op = "outcome"
    /\ SIDE_LENGTH >= 5
    /\ board.last_move # <<>>
    /\ (board.last_move[1] \div SIDE_LENGTH) \in {0, SIDE_LENGTH - 1}
    /\ (board.last_move[1] % SIDE_LENGTH) \in {0, SIDE_LENGTH - 1}
    /\ LastRun(5)
    /\ ret.val = <<LastMover(board)>>

\* a board with the given cells, as a cache key stands for it
BoardOf(cells) ==
    [cells |-> cells, last_move |-> <<>>,
     ply |-> Cardinality({i \in Cells :
                 cells[i \div SIDE_LENGTH][i % SIDE_LENGTH] # "None"})]

\* what holds of the cache at any time, and of a perft_cached call right
\* after it: every key has depth >= 2; every entry the call stored is perft
\* of its key, and every entry that was there before the call is kept as it
\* was.  A call with depth 0 or 1 leaves the cache as it was; a hit returns
\* the stored value and leaves the cache as it was; a miss at depth >= 2
\* adds the entry of its own (board, depth) with the count it returns, the
\* entries of its children being there too.
CacheCallShape ==
    /\ \A key \in DOMAIN cache.map : key[2] >= 2
    /\ ret.op = "perft_cached" =>
           LET key == cache_key(board, ret.depth)
           IN  /\ \A k \in DOMAIN cache.map \ DOMAIN ret.before :
                      cache.map[k] = perft(BoardOf(k[1]), k[2])
               /\ \A k \in DOMAIN ret.before :
                      /\ k \in DOMAIN cache.map
                      /\ cache.map[k] = ret.before[k]
               /\ ret.depth <= 1 => cache.map = ret.before
               /\ (ret.depth >= 2 /\ key \in DOMAIN ret.before) =>
                      /\ cache.map = ret.before
                      /\ ret.val = ret.before[key]
               /\ (ret.depth >= 2 /\ key \notin DOMAIN ret.before) =>
                      /\ key \in DOMAIN cache.map
                      /\ cache.map[key] = ret.val
                      /\ ret.depth >= 3 =>
                             \A mv \in EmptyCells(board) :
                                 cache_key(make_move(board, mv), ret.depth - 1)
                                     \in DOMAIN cache.map

\* C18: from an empty cache on, after any sequence of perft_cached calls,
\* every key of the cache has depth >= 2 and its value is perft of its board
\* and depth: the cache starts empty, only perft_cached changes it, each
\* call starts from the cache the call before left, stores only values that
\* are perft of their keys and keeps the entries it found.
C18_CacheHoldsPerftOfDepthTwoUp ==
    /\ cache.map = <<>>
    /\ []CacheCallShape
    /\ [][/\ ret'.op # "perft_cached" => cache' = cache
          /\ ret'.op = "perft_cached" => ret'.before = cache.map]_vars

\* the second call on a cache hit an entry the first call had stored
C18_Witness ==
    /\ ret.op = "perft_cached"
    /\ cache.calls = 2
    /\ ret.depth >= 2
    /\ cache_key(board, ret.depth) \in DOMAIN ret.before
    /\ ret.val = ret.before[cache_key(board, ret.depth)]
    /\ ret.val > 0

\* k * (k - 1) * ... * (k - d + 1): 1 for d = 0, 0 for d > k
RECURSIVE Falling(_, _)
Falling(k, d) ==
    IF d = 0 THEN 1
    ELSE IF k = 0 THEN 0
    ELSE k * Falling(k - 1, d - 1)

\* C19: perft does not look at outcome() and does not stop at won or drawn
\* positions: on a board with k empty cells perft(board, d) is
\* k * (k - 1) * ... * (k - d + 1), however the stones lie and whatever
\* last_move and ply are.
C19_PerftCountsFallingFactorial ==
    ret.op = "perft" =>
        ret.val = Falling(Cardinality(EmptyCells(board)), ret.depth)

\* perft went two or more plies deep from a position that was already won
C19_Witness ==
    /\ ret.op = "perft"
    /\ ret.depth >= 2
    /\ outcome(board) \in {<<"X">>, <<"O">>}
    /\ Cardinality(EmptyCells(board)) >= 2
    /\ ret.val > 0

\* what holds of a make_random_move call at any time: the enumerate branch
\* is taken exactly above a fill ratio of 0.95 and makes one sampler call,
\* over [0, number of empty cells); inside the loop a cell is empty
RandomCallShape ==
    ret.op = "make_random_move" =>
        /\ (ret.branch = "enumerate") <=>
               (100 * ret.before.ply > 95 * SIDE_LENGTH * SIDE_LENGTH)
        /\ ret.branch = "enumerate" =>
               /\ ret.pc = "done"
               /\ ret.samples = 1
               /\ ret.lo = 0
               /\ ret.hi = Cardinality(EmptyCells(ret.before))
        /\ ret.branch = "reject" =>
               /\ ret.lo = 0
               /\ ret.hi = SIDE_LENGTH * SIDE_LENGTH
               /\ ret.pc = "loop" => EmptyCells(board) # {}
               /\ ret.pc = "done" => ret.samples >= 1

\* C20: make_random_move terminates on every board reached by moves on
\* empty cells that has an empty cell: above a fill ratio of 0.95 it calls
\* the sampler once, with the range [0, number of empty cells), and does not
\* retry; otherwise a cell is empty, and under a fair sampler the rejection
\* loop finds an empty cell and the call completes.
C20_RandomMoveTerminates ==
    /\ []RandomCallShape
    /\ in_loop ~> (ret.op = "make_random_move" /\ ret.pc = "done")

\* the rejection loop ended after the sampler had returned occupied cells
C20_Witness ==
    /\ ret.op = "make_random_move"
    /\ ret.pc = "done"
    /\ ret.branch = "reject"
    /\ ret.samples = MaxSamples
    /\ EmptyCells(board) # {}

\* player p has, anywhere on b, n contiguous stones along one of the axes
AnyRun(b, p, n) ==
    \E i \in Cells : \E a \in AxisSet :
        InRun(b, i \div SIDE_LENGTH, i % SIDE_LENGTH, p, a, n)

\* C21: when every move is made on an empty cell and only while outcome()
\* is InProgress, outcome() reports a win of player p exactly when the board
\* holds, anywhere, a run of at least 5 stones of p along some axis, and at
\* most one player has such a run.
C21_OutcomeAgreesWithWholeBoardScan ==
    /\ ~(AnyRun(board, "X", 5) /\ AnyRun(board, "O", 5))
    /\ ret.op = "outcome" =>
           \A p \in {"X", "O"} : (ret.val = <<p>>) <=> AnyRun(board, p, 5)

\* outcome() has reported the win of the second player, who has a run of
\* five on the board while the first player has none
C21_Witness ==
    /\ ret.op = "outcome"
    /\ ret.val = <<"O">>
    /\ AnyRun(board, "O", 5)
    /\ ~AnyRun(board, "X", 5)

\* a label names a cell of the grid: a letter among the first SIDE letters,
\* in either case, then the decimal digits of a number in 1 .. SIDE
NamesCell(text) ==
    /\ Len(text) \in {2, 3}
    /\ to_ascii_uppercase(text[1]) \in BYTE_A .. (BYTE_A + SIDE_LENGTH - 1)
    /\ \A k \in 2 .. Len(text) : text[k] \in BYTE_0 .. (BYTE_0 + 9)
    /\ Decimal(Tail(text)) \in 1 .. SIDE_LENGTH

\* C22: Move::from_str accepts a label only when it names a cell of the
\* grid; the index of an accepted label is in [0, SIDE*SIDE), and the label
\* of the decoded move is the accepted label with its letter in upper case.
C22_AcceptsOnlyLabelsOfTheGrid ==
    (ret.op = "move_from_text" /\ ret.val.kind = "Ok") =>
        /\ NamesCell(ret.text)
        /\ ret.val.index \in 0 .. (SIDE_LENGTH * SIDE_LENGTH - 1)
        /\ Move_fmt(ret.val.index)
               = <<to_ascii_uppercase(ret.text[1])>> \o Tail(ret.text)

====
